---- MODULE Spec2Model ----
(***************************************************************************)
(* ALock (src/alock/__init__.py): a system-wide lock built on a lock file. *)
(* Two ALock handles are built from the same name and lock directory, so   *)
(* both have the same _filepath.  The file system is modelled by the       *)
(* directory entry at that path (an inode number, 0 when absent) and by    *)
(* the open file each handle keeps in _lockfile; the exclusive lock taken  *)
(* by portalocker.lock belongs to the open file of the handle that took it *)
(* and conflicts with a lock on the same inode through any other open      *)
(* file.                                                                   *)
(*                                                                         *)
(* Time is a discrete clock.  Statements take no time; time passes only    *)
(* while every handle is outside a call or suspended in asyncio.sleep with *)
(* its wake-up time still ahead.  Timeouts and check intervals are whole    *)
(* clock units; every suspension lets the clock advance by at least one.   *)
(***************************************************************************)
EXTENDS Integers, FiniteSets, TLC

Handles == {"A", "B"}

\* Bounds of the model.
\* An acquire may start polling only while now <= MaxTime.
MaxTime == 1
\* The largest _timeout.
MaxTimeout == 2
\* The largest _check_interval.
MaxInterval == 2
\* A reentrant handle nests at most MaxDepth deep.
MaxDepth == 2
\* Releases out of order take the depth at most MaxBelow below 0.
MaxBelow == 1

Platforms == {"linux", "win32", "other"}
Timeouts == {1, MaxTimeout}
Intervals == {1, MaxInterval}
Inodes == 1..(Cardinality(Handles) + 1)

VARIABLES
  platform,        \* sys.platform, fixed for a run
  sameProcess,     \* TRUE: both handles live in one event loop; FALSE: one process each
  _timeout,        \* [Handles -> Timeouts]
  _check_interval, \* [Handles -> Intervals]
  _reentrant,      \* [Handles -> BOOLEAN]
  _enter_count,    \* [Handles -> Int]
  _lockfile,       \* [Handles -> inode of the open file in self._lockfile, 0 if closed/unset]
  locked,          \* [Handles -> BOOLEAN]: the open file in _lockfile holds the exclusive lock
  filepath,        \* inode the directory entry _filepath names, 0 if there is no such file
  pc,              \* [Handles -> position inside __aenter__/__aexit__, "ready" outside a call]
  call_time,       \* [Handles -> Int], local of __aenter__
  current_time,    \* [Handles -> Int], local of __aenter__
  wake,            \* [Handles -> Int], time at which asyncio.sleep returns
  result,          \* [Handles -> outcome of the last finished call]
  now,             \* time()
  solo,            \* [Handles -> BOOLEAN] history: no other handle was active since h began to acquire
  attempts         \* [Handles -> Nat] history: failed lock attempts of h's current or last __aenter__

vars == << platform, sameProcess, _timeout, _check_interval, _reentrant, _enter_count,
           _lockfile, locked, filepath, pc, call_time, current_time, wake, result, now, solo, attempts >>

config == << platform, sameProcess, _timeout, _check_interval, _reentrant >>

Other(h) == Handles \ {h}

\* ALock.__init__: no file I/O, _enter_count = 0.
Init ==
  /\ platform \in Platforms
  /\ sameProcess \in BOOLEAN
  /\ _timeout \in [Handles -> Timeouts]
  /\ _check_interval \in [Handles -> Intervals]
  /\ _reentrant \in [Handles -> BOOLEAN]
  /\ _enter_count = [h \in Handles |-> 0]
  /\ _lockfile = [h \in Handles |-> 0]
  /\ locked = [h \in Handles |-> FALSE]
  /\ filepath = 0
  /\ pc = [h \in Handles |-> "ready"]
  /\ call_time = [h \in Handles |-> 0]
  /\ current_time = [h \in Handles |-> 0]
  /\ wake = [h \in Handles |-> 0]
  /\ result = [h \in Handles |-> "none"]
  /\ now = 0
  /\ solo = [h \in Handles |-> FALSE]
  /\ attempts = [h \in Handles |-> 0]

\* Handles of one event loop run their code between awaits without interleaving;
\* handles of different processes interleave statement by statement.
Running(h) == pc[h] \notin {"ready", "sleep"}

CanRun(h) == sameProcess => \A g \in Other(h) : ~Running(g)

\* A handle that is outside any call, holds nothing and keeps no open file.
Quiet(h) == pc[h] = "ready" /\ _enter_count[h] = 0 /\ _lockfile[h] = 0


(***************************************************************************)
(* __aenter__                                                              *)
(***************************************************************************)

\* Mutant of AEnterReentrant: the re-entry counts and then polls for the file lock again.
AEnterReentrantPolls(h) ==
  /\ pc[h] = "ready" /\ CanRun(h)
  /\ _enter_count[h] > 0 /\ _reentrant[h]
  /\ _enter_count[h] < MaxDepth
  /\ _enter_count' = [_enter_count EXCEPT ![h] = @ + 1]
  /\ call_time' = [call_time EXCEPT ![h] = now]
  /\ current_time' = [current_time EXCEPT ![h] = now]
  /\ pc' = [pc EXCEPT ![h] = "loop"]
  /\ result' = [result EXCEPT ![h] = "none"]
  /\ UNCHANGED << config, _lockfile, locked, filepath, wake, now, solo, attempts >>

\* Lines 60-63: a held reentrant handle only counts the entry.
AEnterReentrant(h) ==
  /\ pc[h] = "ready" /\ CanRun(h)
  /\ _enter_count[h] > 0 /\ _reentrant[h]
  /\ _enter_count[h] < MaxDepth
  /\ _enter_count' = [_enter_count EXCEPT ![h] = @ + 1]
  /\ result' = [result EXCEPT ![h] = "ok"]
  /\ UNCHANGED << config, _lockfile, locked, filepath, pc, call_time, current_time, wake, now, solo, attempts >>

\* Mutant of AEnterRejected: the entry is counted before the re-entrancy check.
AEnterRejectedCounts(h) ==
  /\ pc[h] = "ready" /\ CanRun(h)
  /\ _enter_count[h] > 0 /\ ~_reentrant[h]
  /\ _enter_count' = [_enter_count EXCEPT ![h] = @ + 1]
  /\ result' = [result EXCEPT ![h] = "reentrancy_error"]
  /\ UNCHANGED << config, _lockfile, locked, filepath, pc, call_time, current_time,
                  wake, now, solo, attempts >>

\* Lines 60-65: a held non-reentrant handle raises ALockError at once.
AEnterRejected(h) ==
  /\ pc[h] = "ready" /\ CanRun(h)
  /\ _enter_count[h] > 0 /\ ~_reentrant[h]
  /\ result' = [result EXCEPT ![h] = "reentrancy_error"]
  /\ UNCHANGED << config, _enter_count, _lockfile, locked, filepath, pc, call_time, current_time,
                  wake, now, solo, attempts >>

\* Line 67: current_time = call_time = time().
AEnterStart(h) ==
  /\ pc[h] = "ready" /\ CanRun(h)
  /\ _enter_count[h] <= 0
  /\ now <= MaxTime
  /\ call_time' = [call_time EXCEPT ![h] = now]
  /\ current_time' = [current_time EXCEPT ![h] = now]
  /\ pc' = [pc EXCEPT ![h] = "loop"]
  /\ result' = [result EXCEPT ![h] = "none"]
  /\ solo' = [g \in Handles |-> IF g = h THEN \A k \in Other(h) : Quiet(k) ELSE FALSE]
  /\ attempts' = [attempts EXCEPT ![h] = 0]
  /\ UNCHANGED << config, _enter_count, _lockfile, locked, filepath, wake, now >>

\* Mutant of LoopCondition: the deadline is compared strictly.
LoopConditionStrict(h) == call_time[h] + _timeout[h] > current_time[h]

\* Line 68: the while condition, on the stored current_time.
LoopCondition(h) == call_time[h] + _timeout[h] >= current_time[h]

\* Line 68 true: go on to the attempt.
LoopEnter(h) ==
  /\ pc[h] = "loop" /\ CanRun(h)
  /\ LoopCondition(h)
  /\ pc' = [pc EXCEPT ![h] = "open"]
  /\ UNCHANGED << config, _enter_count, _lockfile, locked, filepath, call_time, current_time,
                  wake, result, now, solo, attempts >>

\* Lines 68, 87: the while condition is false, raise ALockError("Timeout was reached").
\* The locals die with the call; self._lockfile keeps the file of the last attempt.
RaiseTimeout(h) ==
  /\ pc[h] = "loop" /\ CanRun(h)
  /\ ~LoopCondition(h)
  /\ pc' = [pc EXCEPT ![h] = "ready"]
  /\ result' = [result EXCEPT ![h] = "timeout"]
  /\ call_time' = [call_time EXCEPT ![h] = 0]
  /\ current_time' = [current_time EXCEPT ![h] = 0]
  /\ UNCHANGED << config, _enter_count, _lockfile, locked, filepath, wake, now, solo, attempts >>

\* Inodes some directory entry or open file still refers to.
InodesInUse == {filepath} \cup {_lockfile[g] : g \in Handles}

FreshInode == CHOOSE i \in Inodes : i \notin InodesInUse /\ \A j \in Inodes : j \notin InodesInUse => i <= j

\* open(path, "w"): the file the path names, created if there is none.
OpenedInode == IF filepath # 0 THEN filepath ELSE FreshInode

\* Line 69: self._lockfile = open(self._filepath, "w").  The file object _lockfile held
\* before loses its last reference and is closed, which drops a lock it held.
OpenLockfile(h) ==
  /\ pc[h] = "open" /\ CanRun(h)
  /\ filepath' = OpenedInode
  /\ _lockfile' = [_lockfile EXCEPT ![h] = OpenedInode]
  /\ locked' = [locked EXCEPT ![h] = FALSE]
  /\ pc' = [pc EXCEPT ![h] = "lock"]
  /\ UNCHANGED << config, _enter_count, call_time, current_time, wake, result, now, solo, attempts >>

\* portalocker.lock(LOCK_NB | LOCK_EX) raises LockException iff another open file holds
\* the lock on the same inode.
LockConflict(h) == \E g \in Other(h) : locked[g] /\ _lockfile[g] = _lockfile[h]

\* Lines 72-76, 80: the lock is taken, _enter_count = 1, return self.
LockAcquired(h) ==
  /\ pc[h] = "lock" /\ CanRun(h)
  /\ ~LockConflict(h)
  /\ locked' = [locked EXCEPT ![h] = TRUE]
  /\ _enter_count' = [_enter_count EXCEPT ![h] = 1]
  /\ pc' = [pc EXCEPT ![h] = "ready"]
  /\ result' = [result EXCEPT ![h] = "ok"]
  /\ call_time' = [call_time EXCEPT ![h] = 0]
  /\ current_time' = [current_time EXCEPT ![h] = 0]
  /\ UNCHANGED << config, _lockfile, filepath, wake, now, solo, attempts >>

\* Mutant of LockContended: the lock call lacks LOCK_NB and blocks while the lock is taken.
LockContendedBlocks(h) ==
  /\ pc[h] = "lock" /\ CanRun(h)
  /\ LockConflict(h)
  /\ UNCHANGED vars

\* Lines 77-78: LockException is passed over; the file stays open in self._lockfile.
LockContended(h) ==
  /\ pc[h] = "lock" /\ CanRun(h)
  /\ LockConflict(h)
  /\ pc' = [pc EXCEPT ![h] = "sample"]
  /\ attempts' = [attempts EXCEPT ![h] = @ + 1]
  /\ UNCHANGED << config, _enter_count, _lockfile, locked, filepath, call_time, current_time,
                  wake, result, now, solo >>

\* Line 83: the argument of asyncio.sleep.
SleepSeconds(h) == IF _timeout[h] > _check_interval[h] THEN _check_interval[h] ELSE _timeout[h]

\* Line 85: the clock units a suspension takes.  asyncio.sleep(0) still gives up the
\* event loop for one round, which on this clock is one unit.
SleepTicks(h) == IF SleepSeconds(h) > 0 THEN SleepSeconds(h) ELSE 1

\* Lines 82-85: current_time = time(), then suspend in asyncio.sleep.
SampleAndSleep(h) ==
  /\ pc[h] = "sample" /\ CanRun(h)
  /\ current_time' = [current_time EXCEPT ![h] = now]
  /\ wake' = [wake EXCEPT ![h] = now + SleepTicks(h)]
  /\ pc' = [pc EXCEPT ![h] = "sleep"]
  /\ UNCHANGED << config, _enter_count, _lockfile, locked, filepath, call_time, result, now, solo, attempts >>

\* Line 85: asyncio.sleep returns, back to the while condition.
Wake(h) ==
  /\ pc[h] = "sleep" /\ CanRun(h)
  /\ now >= wake[h]
  /\ pc' = [pc EXCEPT ![h] = "loop"]
  /\ wake' = [wake EXCEPT ![h] = 0]
  /\ UNCHANGED << config, _enter_count, _lockfile, locked, filepath, call_time, current_time,
                  result, now, solo, attempts >>

(***************************************************************************)
(* __aexit__                                                               *)
(***************************************************************************)

\* Lines 97-100: a nested exit only counts down.
AExitNested(h) ==
  /\ pc[h] = "ready" /\ CanRun(h)
  /\ _enter_count[h] > 1
  /\ _enter_count' = [_enter_count EXCEPT ![h] = @ - 1]
  /\ result' = [result EXCEPT ![h] = "released"]
  /\ UNCHANGED << config, _lockfile, locked, filepath, pc, call_time, current_time, wake, now, solo, attempts >>

\* Lines 102, 106: the first statement of the teardown on this platform.
TeardownStart == IF platform = "linux" THEN "unlink" ELSE "close"

\* Lines 97-102: the outermost exit of a held handle counts down to 0 and tears down.
AExitFinal(h) ==
  /\ pc[h] = "ready" /\ CanRun(h)
  /\ _enter_count[h] = 1
  /\ _enter_count' = [_enter_count EXCEPT ![h] = @ - 1]
  /\ pc' = [pc EXCEPT ![h] = TeardownStart]
  /\ result' = [result EXCEPT ![h] = "none"]
  /\ UNCHANGED << config, _lockfile, locked, filepath, call_time, current_time, wake, now, solo, attempts >>

\* Line 104: os.unlink removes the directory entry, whichever inode it names.
UnlinkFile(h) ==
  /\ pc[h] = "unlink" /\ CanRun(h)
  /\ filepath # 0
  /\ filepath' = 0
  /\ pc' = [pc EXCEPT ![h] = "close"]
  /\ UNCHANGED << config, _enter_count, _lockfile, locked, call_time, current_time, wake,
                  result, now, solo, attempts >>

\* Line 104: os.unlink raises FileNotFoundError when there is no such file; nothing
\* catches it, so __aexit__ ends here and line 106 is not reached.
UnlinkRaises(h) ==
  /\ pc[h] = "unlink" /\ CanRun(h)
  /\ filepath = 0
  /\ pc' = [pc EXCEPT ![h] = "ready"]
  /\ result' = [result EXCEPT ![h] = "release_error"]
  /\ UNCHANGED << config, _enter_count, _lockfile, locked, filepath, call_time, current_time,
                  wake, now, solo, attempts >>

\* Lines 106-108: where __aexit__ goes after the close.
AfterClose == IF platform = "win32" THEN "remove" ELSE "ready"

\* Mutant of CloseLockfile: the file is not closed, so its lock stays.
CloseLockfileLeak(h) ==
  /\ pc[h] = "close" /\ CanRun(h)
  /\ pc' = [pc EXCEPT ![h] = AfterClose]
  /\ result' = [result EXCEPT ![h] = IF AfterClose = "ready" THEN "released" ELSE @]
  /\ UNCHANGED << config, _enter_count, _lockfile, locked, filepath, call_time, current_time,
                  wake, now, solo, attempts >>

\* Line 106: self._lockfile.close() closes the file and with it drops its lock.
CloseLockfile(h) ==
  /\ pc[h] = "close" /\ CanRun(h)
  /\ _lockfile' = [_lockfile EXCEPT ![h] = 0]
  /\ locked' = [locked EXCEPT ![h] = FALSE]
  /\ pc' = [pc EXCEPT ![h] = AfterClose]
  /\ result' = [result EXCEPT ![h] = IF AfterClose = "ready" THEN "released" ELSE @]
  /\ UNCHANGED << config, _enter_count, filepath, call_time, current_time, wake, now, solo, attempts >>

\* Windows refuses to delete a file some handle still has open (EACCES).
OpenElsewhere == \E g \in Handles : _lockfile[g] # 0 /\ _lockfile[g] = filepath

\* Lines 110-116: os.remove; ENOENT (no file) and EACCES (file open) are muted.
RemoveFile(h) ==
  /\ pc[h] = "remove" /\ CanRun(h)
  /\ filepath' = IF filepath = 0 \/ OpenElsewhere THEN filepath ELSE 0
  /\ pc' = [pc EXCEPT ![h] = "ready"]
  /\ result' = [result EXCEPT ![h] = "released"]
  /\ UNCHANGED << config, _enter_count, _lockfile, locked, call_time, current_time, wake, now, solo, attempts >>

(***************************************************************************)
(* The clock                                                               *)
(***************************************************************************)

\* A suspended handle whose asyncio.sleep has not run out yet.
Asleep(h) == pc[h] = "sleep" /\ now < wake[h]

\* Time passes while nobody runs and no sleeper is due.  Past MaxTime it passes only
\* for the sleepers that wait for it.
Tick ==
  /\ \A h \in Handles : pc[h] = "ready" \/ Asleep(h)
  /\ now < MaxTime \/ \E h \in Handles : Asleep(h)
  /\ now' = now + 1
  /\ UNCHANGED << config, _enter_count, _lockfile, locked, filepath, pc, call_time, current_time,
                  wake, result, solo, attempts >>

Step(h) ==
  \/ AEnterReentrant(h)
  \/ AEnterRejected(h)
  \/ AEnterStart(h)
  \/ LoopEnter(h)
  \/ RaiseTimeout(h)
  \/ OpenLockfile(h)
  \/ LockAcquired(h)
  \/ LockContended(h)
  \/ SampleAndSleep(h)
  \/ Wake(h)
  \/ AExitNested(h)
  \/ AExitFinal(h)
  \/ UnlinkFile(h)
  \/ UnlinkRaises(h)
  \/ CloseLockfile(h)
  \/ RemoveFile(h)

Next == Tick \/ \E h \in Handles : Step(h)

Spec == Init /\ [][Next]_vars

\* The statements a call runs once it has begun; the calls themselves are the caller's choice.
Internal(h) ==
  \/ LoopEnter(h)
  \/ RaiseTimeout(h)
  \/ OpenLockfile(h)
  \/ LockAcquired(h)
  \/ LockContended(h)
  \/ SampleAndSleep(h)
  \/ Wake(h)
  \/ UnlinkFile(h)
  \/ UnlinkRaises(h)
  \/ CloseLockfile(h)
  \/ RemoveFile(h)

\* The runs checked for progress: handle A is reentrant and handle B is not, and
\* both are built with the same check interval.
LiveInit ==
  /\ Init
  /\ _reentrant = [h \in Handles |-> h = "A"]
  /\ _check_interval["A"] = _check_interval["B"]

\* The event loop and the OS scheduler run every started call on, and the clock advances.
LiveSpec ==
  /\ LiveInit /\ [][Next]_vars
  /\ SF_vars(Tick)
  /\ \A h \in Handles : SF_vars(Internal(h))

(***************************************************************************)
(* Properties                                                              *)
(***************************************************************************)

Held(h) == _enter_count[h] > 0

\* The handle holds the exclusive lock on the file its path names now.
HoldsLockOnPath(h) == locked[h] /\ filepath # 0 /\ _lockfile[h] = filepath

\* C1: mutual exclusion: two handles on the same name are never Held (enter_count > 0)
\* at the same time, under every interleaving of their acquire and release steps.
C1_MutualExclusion == \A g, h \in Handles : (g # h /\ Held(g)) => ~Held(h)

\* C2: at rest, a handle holds the exclusive lock on the file its path names
\* if and only if its depth is greater than 0.
C2_LockIffDepth == \A h \in Handles : pc[h] = "ready" => (HoldsLockOnPath(h) <=> Held(h))

\* The three ways a call of __aenter__ begins.
AcquireCalled(h) == AEnterReentrant(h) \/ AEnterRejected(h) \/ AEnterStart(h)

\* C3: acquire on a non-reentrant handle of depth 1 fails at once with the re-entrancy
\* error: no poll, no open, no suspension; depth stays 1 and the handle keeps its open
\* file and its lock.
C3_NonReentrantRejection ==
  [][\A h \in Handles :
       (AcquireCalled(h) /\ ~_reentrant[h] /\ _enter_count[h] = 1) =>
         /\ result'[h] = "reentrancy_error"
         /\ pc'[h] = "ready"
         /\ _enter_count'[h] = 1
         /\ _lockfile'[h] = _lockfile[h] /\ _lockfile'[h] # 0
         /\ locked'[h]
         /\ filepath' = filepath
         /\ now' = now]_vars

C3_Witness ==
  \E h \in Handles : result[h] = "reentrancy_error" /\ _enter_count[h] = 1 /\ locked[h]

\* The step that ends a final release, by returning or by raising.
FinalReleaseEnds(h) == pc[h] \in {"unlink", "close", "remove"} /\ pc'[h] = "ready"

\* C4: for a reentrant handle, N acquires followed by N releases end in Idle: depth 0,
\* the handle holds no OS lock, and its lock file is gone from the path.
C4_ReentrantReleaseIdle ==
  [][\A h \in Handles :
       (_reentrant[h] /\ FinalReleaseEnds(h)) =>
         /\ _enter_count'[h] = 0
         /\ ~locked'[h]
         /\ filepath' = 0 \/ filepath' # _lockfile[h]]_vars

\* Positions inside the poll loop of __aenter__.
InAcquire(h) == pc[h] \in {"loop", "open", "lock", "sample", "sleep"}

\* C5: the timeout is a hard upper bound from entry into the poll loop: no lock attempt
\* starts and the call does not end later than call_time + timeout.
C5_TimeoutHardBound ==
  [][\A h \in Handles :
       (InAcquire(h) /\ (pc'[h] = "open" \/ pc'[h] = "ready")) =>
         now' <= call_time[h] + _timeout[h]]_vars

\* Another handle holds the lock on the file the path names.
ContenderHolds(h) == \E g \in Other(h) : HoldsLockOnPath(g)

TimedOut(h) == pc[h] = "ready" /\ result[h] = "timeout"

\* C6: acquisition never hangs: an acquire that enters its poll loop while a contender
\* holds the lock file, and the contender keeps it locked for good, ends by raising the
\* timeout error; it neither polls forever nor reports success.
C6_NeverHangs ==
  \A h \in Handles :
    (pc[h] = "loop" /\ attempts[h] = 0 /\ ContenderHolds(h)) ~> (TimedOut(h) \/ ~ContenderHolds(h))

C6_Witness ==
  \E h \in Handles : TimedOut(h) /\ ContenderHolds(h) /\ attempts[h] > 1

\* C7: after a full acquire and release cycle by one handle with no contention the lock
\* file is gone from the path and no OS lock remains; the first lock attempt of a
\* following acquire with no contention succeeds.
C7_CleanupOnRelease ==
  [][\A h \in Handles :
       /\ (solo[h] /\ FinalReleaseEnds(h)) =>
            (filepath' = 0 /\ \A g \in Handles : ~locked'[g])
       /\ (solo[h] /\ pc[h] = "lock" /\ pc'[h] # "lock") =>
            (_enter_count'[h] = 1 /\ attempts'[h] = 0)]_vars

\* C8: a final release that finds the lock file already removed from the path
\* completes without raising.
C8_BenignRace ==
  [][\A h \in Handles :
       (FinalReleaseEnds(h) /\ filepath = 0) => result'[h] = "released"]_vars

\* C9: when a final release ends by raising, the handle's file has been closed
\* and its OS lock is gone.
C9_ReleaseRunsFully ==
  \A h \in Handles : result[h] = "release_error" => (_lockfile[h] = 0 /\ ~locked[h])

\* The other handle has fully released: it is outside any call with depth 0.
OthersReleased(h) == \A g \in Other(h) : pc[g] = "ready" /\ _enter_count[g] = 0

\* C10: a polling acquire ends, by success or by the timeout error; and a lock attempt
\* made once the other handle has fully released succeeds.
C10_HandOff ==
  /\ \A h \in Handles : InAcquire(h) ~> (pc[h] = "ready" /\ result[h] \in {"ok", "timeout"})
  /\ [][\A h \in Handles :
          (pc[h] = "lock" /\ pc'[h] # "lock" /\ OthersReleased(h)) =>
            (_enter_count'[h] = 1 /\ result'[h] = "ok" /\ pc'[h] = "ready")]_vars

C10_Witness ==
  \E h \in Handles :
    /\ pc[h] = "ready" /\ result[h] = "ok" /\ attempts[h] > 0
    /\ \A g \in Other(h) : result[g] = "released" /\ _enter_count[g] = 0

\* What a step leaves alone of handle h besides its depth and the outcome of its call.
HandleKept(h) ==
  /\ _lockfile'[h] = _lockfile[h]
  /\ locked'[h] = locked[h]
  /\ pc'[h] = pc[h]
  /\ call_time'[h] = call_time[h]
  /\ current_time'[h] = current_time[h]
  /\ wake'[h] = wake[h]

\* What a step leaves alone of every handle other than h.
OthersKept(h) ==
  \A g \in Other(h) :
    /\ HandleKept(g)
    /\ _enter_count'[g] = _enter_count[g]
    /\ result'[g] = result[g]

\* C13: acquire on a held reentrant handle adds exactly 1 to depth and returns success
\* at once: the retained file, the file system, the clock and every other handle are
\* unchanged, and the call does not suspend.
C13_ReentrantBookkeeping ==
  [][\A h \in Handles :
       (AcquireCalled(h) /\ _reentrant[h] /\ _enter_count[h] > 0) =>
         /\ _enter_count'[h] = _enter_count[h] + 1
         /\ result'[h] = "ok"
         /\ pc'[h] = "ready"
         /\ HandleKept(h)
         /\ OthersKept(h)
         /\ filepath' = filepath
         /\ now' = now]_vars

C13_Witness ==
  \E h \in Handles : _reentrant[h] /\ _enter_count[h] = 2 /\ result[h] = "ok" /\ locked[h]

\* A release call on handle h: lines 97-100 take either the nested or the final branch.
ReleaseCalled(h) == AExitNested(h) \/ AExitFinal(h)

\* C14: a release that leaves depth > 0 changes only depth: the OS lock stays held, the
\* file stays open and retained, the lock file is not deleted; and while a handle is
\* still held after such a nested release, no other handle's lock attempt succeeds.
C14_NestedReleaseKeepsLock ==
  [][\A h \in Handles :
       /\ (ReleaseCalled(h) /\ _enter_count[h] > 1) =>
            /\ _enter_count'[h] = _enter_count[h] - 1
            /\ HandleKept(h)
            /\ locked'[h] /\ _lockfile'[h] # 0
            /\ filepath' = filepath
            /\ OthersKept(h)
            /\ now' = now
       /\ (Held(h) /\ result[h] = "released") =>
            \A g \in Other(h) : ~(pc[g] = "lock" /\ _enter_count'[g] = 1)]_vars

\* The remaining time of h's acquire: deadline (loop start + timeout) minus the clock.
Remaining(h) == call_time[h] + _timeout[h] - now

\* C15: after a failed attempt that is followed by a suspension, the suspension lasts
\* exactly min(poll interval, deadline - now), never longer than the remaining time.
C15_PollSpacingClamped ==
  [][\A h \in Handles :
       (pc[h] = "sample" /\ pc'[h] = "sleep") =>
         wake'[h] - now =
           IF _check_interval[h] < Remaining(h) THEN _check_interval[h] ELSE Remaining(h)]_vars

\* C16: in a final release on linux the path is unlinked first, with the OS lock still
\* held and the file still open, and the file is closed after; on win32 the file is
\* closed first and the deletion is attempted after. Each step happens exactly once and
\* the release never suspends between them.
C16_TeardownOrdering ==
  [][\A h \in Handles :
       /\ (ReleaseCalled(h) /\ _enter_count[h] = 1 /\ platform = "linux") =>
            pc'[h] = "unlink"
       /\ (ReleaseCalled(h) /\ _enter_count[h] = 1 /\ platform = "win32") =>
            pc'[h] = "close"
       /\ (pc[h] = "unlink" /\ pc'[h] # "unlink") =>
            /\ platform = "linux"
            /\ filepath' = 0
            /\ locked'[h] /\ _lockfile'[h] = _lockfile[h] /\ _lockfile[h] # 0
            /\ pc'[h] = "close"
       /\ (pc[h] = "close" /\ pc'[h] # "close") =>
            /\ _lockfile'[h] = 0 /\ ~locked'[h]
            /\ pc'[h] = IF platform = "win32" THEN "remove" ELSE "ready"
       /\ (pc[h] = "remove" /\ pc'[h] # "remove") =>
            /\ platform = "win32"
            /\ pc'[h] = "ready"
       /\ pc[h] \in {"unlink", "close", "remove"} => now' = now]_vars

\* C17: a handle that is suspended between attempts, or whose acquire ended with the
\* timeout error, owns no open file: an open file is owned only while depth > 0.
C17_NoFileAfterFailedAttempt ==
  \A h \in Handles :
    /\ (pc[h] = "sleep" \/ TimedOut(h)) => _lockfile[h] = 0
    /\ (pc[h] \in {"ready", "sleep", "sample", "loop"} /\ _lockfile[h] # 0) => _enter_count[h] > 0

\* C20: the unlink/remove of one handle's final release never removes the directory
\* entry of a file on which a different handle currently holds the OS lock.
C20_ReleaseRemovesOwnFileOnly ==
  [][\A h \in Handles :
       (pc[h] \in {"unlink", "remove"} /\ pc'[h] # pc[h] /\ filepath # 0 /\ filepath' = 0) =>
         ~ \E g \in Other(h) : locked[g] /\ _lockfile[g] = filepath]_vars

(***************************************************************************)
(* Faults, cancellation and calls out of order                             *)
(***************************************************************************)

\* Line 69: open raises OSError (permissions, disk); nothing catches it, so __aenter__
\* ends with that error.  The assignment did not happen: self._lockfile is as before.
OpenRaises(h) ==
  /\ pc[h] = "open" /\ CanRun(h)
  /\ pc' = [pc EXCEPT ![h] = "ready"]
  /\ result' = [result EXCEPT ![h] = "acquisition_error"]
  /\ call_time' = [call_time EXCEPT ![h] = 0]
  /\ current_time' = [current_time EXCEPT ![h] = 0]
  /\ UNCHANGED << config, _enter_count, _lockfile, locked, filepath, wake, now, solo, attempts >>

\* Lines 72, 77-78: portalocker.lock fails although nobody holds the lock (an I/O error
\* of the locking call); portalocker raises it as LockException, the base class of its
\* errors, which line 77 catches just like contention.
LockFails(h) ==
  /\ pc[h] = "lock" /\ CanRun(h)
  /\ ~LockConflict(h)
  /\ pc' = [pc EXCEPT ![h] = "sample"]
  /\ attempts' = [attempts EXCEPT ![h] = @ + 1]
  /\ UNCHANGED << config, _enter_count, _lockfile, locked, filepath, call_time, current_time,
                  wake, result, now, solo >>

\* Line 85: the task is cancelled while suspended; asyncio.sleep raises CancelledError,
\* which leaves __aenter__ through no handler.
Cancel(h) ==
  /\ pc[h] = "sleep" /\ CanRun(h)
  /\ pc' = [pc EXCEPT ![h] = "ready"]
  /\ result' = [result EXCEPT ![h] = "cancelled"]
  /\ wake' = [wake EXCEPT ![h] = 0]
  /\ call_time' = [call_time EXCEPT ![h] = 0]
  /\ current_time' = [current_time EXCEPT ![h] = 0]
  /\ UNCHANGED << config, _enter_count, _lockfile, locked, filepath, now, solo, attempts >>

\* self._lockfile exists (open or closed) once line 69 has run: it is open, or the last
\* call on the handle ended past an attempt.
HasLockfile(h) ==
  _lockfile[h] # 0 \/ result[h] \in {"released", "release_error", "timeout", "cancelled"}

\* Lines 97-102: __aexit__ on a handle that is not held counts down below 0 and goes on
\* to the teardown.
AExitUnheld(h) ==
  /\ pc[h] = "ready" /\ CanRun(h)
  /\ _enter_count[h] <= 0
  /\ _enter_count[h] > -MaxBelow
  /\ HasLockfile(h)
  /\ _enter_count' = [_enter_count EXCEPT ![h] = @ - 1]
  /\ pc' = [pc EXCEPT ![h] = TeardownStart]
  /\ result' = [result EXCEPT ![h] = "none"]
  /\ UNCHANGED << config, _lockfile, locked, filepath, call_time, current_time, wake, now, solo, attempts >>

WideStep(h) ==
  \/ Step(h)
  \/ OpenRaises(h)
  \/ LockFails(h)
  \/ Cancel(h)
  \/ AExitUnheld(h)

WideNext == Tick \/ \E h \in Handles : WideStep(h)

\* The configurations of LiveInit in which both handles have the same timeout.
WideInit == LiveInit /\ _timeout["A"] = _timeout["B"]

\* The runs with faults, cancellations and releases out of order.
WideSpec == WideInit /\ [][WideNext]_vars

\* C11: only contention is retried: a failure of the open or of the lock call that is
\* not "already locked by someone else" is never retried by the poll loop; it reaches
\* the caller on its first occurrence and the acquire call ends there.
C11_OnlyContentionRetried ==
  [][\A h \in Handles :
       (OpenRaises(h) \/ LockFails(h)) =>
         /\ pc'[h] = "ready"
         /\ result'[h] = "acquisition_error"]_vars

\* C12: depth >= 0 in every reachable state, whatever acquire and release calls were
\* made on the handle, failed acquires included.
C12_DepthNeverNegative == \A h \in Handles : _enter_count[h] >= 0

\* C18: a task cancelled during the sleep between attempts abandons the acquire with no
\* further lock attempt; the handle ends with depth 0, holds no OS lock, and the file
\* opened in the current iteration has been closed.
C18_CancelledWhileSuspended ==
  [][\A h \in Handles :
       Cancel(h) =>
         /\ pc'[h] = "ready"
         /\ _enter_count'[h] = 0
         /\ ~locked'[h]
         /\ _lockfile'[h] = 0]_vars

(***************************************************************************)
(* Timeout 0                                                               *)
(***************************************************************************)

\* timeout = 0 beside the largest timeout.
ZeroTimeouts == {0, MaxTimeout}

\* ALock.__init__ with timeouts from ZeroTimeouts; handle A is reentrant and handle B
\* is not, and both are built with the same check interval.
ZeroInit ==
  /\ platform \in Platforms
  /\ sameProcess \in BOOLEAN
  /\ _timeout \in [Handles -> ZeroTimeouts]
  /\ _check_interval \in [Handles -> Intervals]
  /\ _check_interval["A"] = _check_interval["B"]
  /\ _reentrant = [h \in Handles |-> h = "A"]
  /\ _enter_count = [h \in Handles |-> 0]
  /\ _lockfile = [h \in Handles |-> 0]
  /\ locked = [h \in Handles |-> FALSE]
  /\ filepath = 0
  /\ pc = [h \in Handles |-> "ready"]
  /\ call_time = [h \in Handles |-> 0]
  /\ current_time = [h \in Handles |-> 0]
  /\ wake = [h \in Handles |-> 0]
  /\ result = [h \in Handles |-> "none"]
  /\ now = 0
  /\ solo = [h \in Handles |-> FALSE]
  /\ attempts = [h \in Handles |-> 0]

ZeroSpec == ZeroInit /\ [][Next]_vars

\* C19: an acquire on an idle handle makes one open-and-try-lock attempt before any
\* deadline check can fail, for every timeout >= 0, 0 included: the first check of the
\* while condition passes, the timeout error is raised only after at least one failed
\* attempt, and an acquire that nobody contends with succeeds whatever the timeout.
C19_AtLeastOneAttempt ==
  /\ [](\A h \in Handles : (pc[h] = "loop" /\ attempts[h] = 0) => LoopCondition(h))
  /\ [](\A h \in Handles : TimedOut(h) => attempts[h] >= 1)
  /\ [](\A h \in Handles : solo[h] => (attempts[h] = 0 /\ ~TimedOut(h)))
  /\ [][\A h \in Handles :
          /\ (pc[h] = "loop" /\ pc'[h] = "ready") => attempts[h] >= 1
          /\ (pc[h] = "lock" /\ pc'[h] # "lock" /\ ~LockConflict(h)) =>
               (_enter_count'[h] = 1 /\ result'[h] = "ok" /\ pc'[h] = "ready")]_vars

C19_Witness ==
  \E h \in Handles :
    /\ _timeout[h] = 0 /\ TimedOut(h) /\ attempts[h] >= 1
    /\ \E g \in Other(h) : _timeout[g] = 0 /\ Held(g) /\ result[g] = "ok" /\ attempts[g] = 0

====
